---------------------------- MODULE Spec2Model ----------------------------
(***************************************************************************)
(* A model of makemetatree.py: the Info hasher scope (rolling SHA-1 over   *)
(* fixed-size pieces), the BTTree size tree, BTTree.buildMetaTree and the  *)
(* loop of main over the source arguments.                                 *)
(*                                                                         *)
(* Representation.                                                         *)
(*  - A str holding a name or a path is a sequence of byte values.         *)
(*  - A str holding file data is run-length encoded: a sequence of runs    *)
(*    <<byte, count>> with count > 0 and adjacent runs of different bytes, *)
(*    so that equal byte strings have equal representations and strings of *)
(*    several pieces of 2^15 bytes stay small.                             *)
(*  - sha.sha() is the byte string absorbed since its creation, and        *)
(*    digest() is an injective image of it: two digests are equal exactly  *)
(*    when the same bytes were absorbed.                                   *)
(*  - ''.join(pieces) is kept as the sequence of its 20-byte digests.      *)
(***************************************************************************)
EXTENDS Integers, Sequences, FiniteSets, TLC

VARIABLES
    encoding,   \* ENCODING, the platform's filesystem encoding (lines 15-20)
    fsys,       \* the filesystem below the working directory
    opts,       \* main's u, prefix, ignore, target after option parsing
    args,       \* main's args after tracker = args.pop(0)
    argi,       \* number of elements of args the for loop has taken
    stack,      \* the active buildMetaTree frames, outermost first
    infos,      \* the list object bound to the default argument infos = []
    handles,    \* locations of the file objects opened and not closed
    written,    \* every file written by Info.write, in order
    madedirs,   \* directories created by os.makedirs, in order
    error,      \* the exception that ended the run, or NoError
    mainpc,     \* where main is: "loop", "call", "returned" or "raised"
    stream,     \* the byte string a client of Info feeds to its scopes
    fed,        \* per scope of the client: bytes of stream passed to add_data
    calls,      \* per scope of the client: number of add_data calls made
    closed,     \* per scope of the client: write() has been called
    probe       \* two sizes and the piece lengths computed for them

vars == <<encoding, fsys, opts, args, argi, stack, infos, handles, written,
          madedirs, error, mainpc, stream, fed, calls, closed, probe>>

driverVars == <<fsys, opts, args, argi, stack, handles, madedirs, error, mainpc>>
clientVars == <<stream, fed, calls, closed, probe>>

---------------------------------------------------------------------------
(* Bounds of the model *)

\* most add_data calls a client makes on one scope
MaxCalls == 3
\* time() returns a value in 0..MaxTime
MaxTime == 1

---------------------------------------------------------------------------
(* Byte values *)

\* error = NoError: no exception has been raised
NoError == [kind |-> "none", loc |-> <<>>]
\* no size has been handed to get_piece_len
NoProbe == [sizes |-> <<>>, lens |-> <<>>]

Slash == 47
Dot == 46

\* '.torrent'
TorrentExt == <<46, 116, 111, 114, 114, 101, 110, 116>>

\* the tracker URL, args.pop(0) of main
Tracker == "http://tracker/announce"

Max(a, b) == IF a >= b THEN a ELSE b
Min(a, b) == IF a <= b THEN a ELSE b

RECURSIVE SumSeq(_)
SumSeq(s) == IF s = <<>> THEN 0 ELSE Head(s) + SumSeq(Tail(s))

RECURSIVE Flatten(_)
Flatten(ss) == IF ss = <<>> THEN <<>> ELSE Head(ss) \o Flatten(Tail(ss))

---------------------------------------------------------------------------
(* Run-length encoded file data: len(), slicing, concatenation *)

RECURSIVE DLen(_)
DLen(d) == IF d = <<>> THEN 0 ELSE Head(d)[2] + DLen(Tail(d))

\* d + e
DCat(d, e) ==
    IF d = <<>> THEN e
    ELSE IF e = <<>> THEN d
    ELSE LET l == d[Len(d)]
             h == e[1]
         IN  IF l[1] = h[1]
             THEN SubSeq(d, 1, Len(d) - 1) \o << <<l[1], l[2] + h[2]>> >> \o Tail(e)
             ELSE d \o e

\* d[:r], r >= 0
RECURSIVE DTake(_, _)
DTake(d, r) ==
    IF r <= 0 \/ d = <<>> THEN <<>>
    ELSE IF Head(d)[2] <= r
         THEN <<Head(d)>> \o DTake(Tail(d), r - Head(d)[2])
         ELSE << <<Head(d)[1], r>> >>

\* d[r:], r >= 0
RECURSIVE DDrop(_, _)
DDrop(d, r) ==
    IF r <= 0 \/ d = <<>> THEN d
    ELSE IF Head(d)[2] <= r
         THEN DDrop(Tail(d), r - Head(d)[2])
         ELSE << <<Head(d)[1], Head(d)[2] - r>> >> \o Tail(d)

\* d[a:b]
DSlice(d, a, b) == DTake(DDrop(d, a), b - a)

\* sha.sha(), sh.update(d), sh.digest()
ShaNew == <<>>
ShaUpdate(sh, d) == DCat(sh, d)
ShaDigest(sh) == [sha1 |-> sh]

---------------------------------------------------------------------------
(* uniconvert: unicode(src, encoding).encode('utf-8')                      *)
(* The model's names hold bytes below 224, so a UTF-8 sequence is one or   *)
(* two bytes long.                                                         *)

Encodings == {"ascii", "latin-1", "utf-8"}

\* unicode(src, enc): [ok |-> FALSE] stands for UnicodeError
RECURSIVE Decode(_, _)
Decode(src, enc) ==
    IF src = <<>> THEN [ok |-> TRUE, cps |-> <<>>]
    ELSE LET b == Head(src) IN
         IF b < 128 THEN
             LET t == Decode(Tail(src), enc)
             IN  IF t.ok THEN [ok |-> TRUE, cps |-> <<b>> \o t.cps] ELSE t
         ELSE IF enc = "latin-1" THEN
             LET t == Decode(Tail(src), enc)
             IN  IF t.ok THEN [ok |-> TRUE, cps |-> <<b>> \o t.cps] ELSE t
         ELSE IF enc = "utf-8" /\ b >= 194 /\ b < 224 /\ Len(src) >= 2
                 /\ src[2] >= 128 /\ src[2] < 192 THEN
             LET t == Decode(Tail(Tail(src)), enc)
             IN  IF t.ok
                 THEN [ok |-> TRUE, cps |-> <<(b - 192) * 64 + (src[2] - 128)>> \o t.cps]
                 ELSE t
         ELSE [ok |-> FALSE, cps |-> <<>>]

\* u.encode('utf-8')
RECURSIVE EncodeUtf8(_)
EncodeUtf8(cps) ==
    IF cps = <<>> THEN <<>>
    ELSE LET c == Head(cps) IN
         (IF c < 128 THEN <<c>> ELSE <<192 + (c \div 64), 128 + (c % 64)>>)
             \o EncodeUtf8(Tail(cps))

\* uniconvert raises UnicodeError exactly when this is FALSE
uniconvert_ok(src, enc) == Decode(src, enc).ok
uniconvert(src, enc) == EncodeUtf8(Decode(src, enc).cps)

\* uniconvertl: the except clause builds its message with
\* 'bad filename: ' + os.path.join(srclist), a str plus a list, so a name
\* that does not decode ends in TypeError
uniconvertl_ok(srclist, enc) == \A i \in 1..Len(srclist) : uniconvert_ok(srclist[i], enc)
uniconvertl(srclist, enc) == [i \in 1..Len(srclist) |-> uniconvert(srclist[i], enc)]

---------------------------------------------------------------------------
(* class Info *)

\* get_piece_len with ">=" for ">" at the 64 MiB threshold
get_piece_len_geq(kib, rem) ==
    LET K == 1024
        Over(t) == kib > t \/ (kib = t /\ rem > 0)
        piece_len_exp ==
            IF Over(8 * K * K) THEN 21
            ELSE IF Over(2 * K * K) THEN 20
            ELSE IF Over(512 * K) THEN 19
            ELSE IF kib >= 64 * K THEN 18
            ELSE IF Over(16 * K) THEN 17
            ELSE IF Over(4 * K) THEN 16
            ELSE 15
    IN  2 ^ piece_len_exp

\* get_piece_len for size = kib * 1024 + rem, 0 <= rem < 1024: the sizes of
\* the upper thresholds lie outside the integers the model checker computes
\* with, so that the comparisons are made on the two parts
get_piece_len_wide(kib, rem) ==
    LET K == 1024
        \* size > t * 1024
        Over(t) == kib > t \/ (kib = t /\ rem > 0)
        piece_len_exp ==
            IF Over(8 * K * K) THEN 21
            ELSE IF Over(2 * K * K) THEN 20
            ELSE IF Over(512 * K) THEN 19
            ELSE IF Over(64 * K) THEN 18
            ELSE IF Over(16 * K) THEN 17
            ELSE IF Over(4 * K) THEN 16
            ELSE 15
    IN  2 ^ piece_len_exp

get_piece_len(size) == get_piece_len_wide(size \div 1024, size % 1024)

\* Info.__init__, when uniconvert(source) does not raise
InfoInit(source, target, tracker, size, enc) ==
    [ name         |-> uniconvert(source, enc),
      target       |-> target,
      tracker      |-> tracker,
      size         |-> size,
      piece_length |-> get_piece_len(size),
      pieces       |-> <<>>,
      sh           |-> ShaNew,
      done         |-> 0,
      fs           |-> <<>>,
      totalhashed  |-> 0 ]

\* Info.add_file_info, when uniconvertl(path) does not raise
add_file_info(self, size, path, enc) ==
    [self EXCEPT !.fs = Append(@, [length |-> size, path |-> uniconvertl(path, enc)])]

\* add_data with "self.done = a" for "self.done += a": the bytes of earlier
\* short chunks are forgotten when the next boundary is computed
RECURSIVE add_data_done_assigned(_, _)
add_data_done_assigned(self, data) ==
    IF DLen(data) > 0 THEN
        LET a == DLen(data)
            r == self.piece_length - self.done
        IN  IF a < r THEN
                [self EXCEPT !.sh = ShaUpdate(@, data),
                             !.done = a,
                             !.totalhashed = @ + a]
            ELSE
                LET d    == DTake(data, r)
                    rest == DDrop(data, r)
                    sh1  == ShaUpdate(self.sh, d)
                IN  add_data_done_assigned(
                        [self EXCEPT !.pieces = Append(@, ShaDigest(sh1)),
                                     !.done = 0,
                                     !.sh = ShaNew],
                        rest)
    ELSE self

\* add_data with "a <= r" for "a < r": a chunk that ends on the piece
\* boundary is absorbed without its piece being emitted
RECURSIVE add_data_leq(_, _)
add_data_leq(self, data) ==
    IF DLen(data) > 0 THEN
        LET a == DLen(data)
            r == self.piece_length - self.done
        IN  IF a <= r THEN
                [self EXCEPT !.sh = ShaUpdate(@, data),
                             !.done = @ + a,
                             !.totalhashed = @ + a]
            ELSE
                LET d    == DTake(data, r)
                    rest == DDrop(data, r)
                    sh1  == ShaUpdate(self.sh, d)
                IN  add_data_leq([self EXCEPT !.pieces = Append(@, ShaDigest(sh1)),
                                              !.done = 0,
                                              !.sh = ShaNew],
                                 rest)
    ELSE self

\* Info.add_data: the while loop, one unfolding per iteration
RECURSIVE add_data(_, _)
add_data(self, data) ==
    IF DLen(data) > 0 THEN
        LET a == DLen(data)
            r == self.piece_length - self.done
        IN  IF a < r THEN
                [self EXCEPT !.sh = ShaUpdate(@, data),
                             !.done = @ + a,
                             !.totalhashed = @ + a]
            ELSE
                LET d    == DTake(data, r)
                    rest == DDrop(data, r)
                    sh1  == ShaUpdate(self.sh, d)
                IN  add_data([self EXCEPT !.pieces = Append(@, ShaDigest(sh1)),
                                          !.done = 0,
                                          !.sh = ShaNew],
                             rest)
    ELSE self

\* write() without the test "if self.done > 0"
FlushAlways(self) == [self EXCEPT !.pieces = Append(@, ShaDigest(self.sh))]

\* Info.write, lines 159-160: "Whatever hash we have left, we'll take"
Flush(self) ==
    IF self.done > 0
    THEN [self EXCEPT !.pieces = Append(@, ShaDigest(self.sh))]
    ELSE self

\* Info.write, lines 162-165: the info dictionary
InfoDict(self) ==
    ("pieces" :> self.pieces) @@ ("piece length" :> self.piece_length)
        @@ ("files" :> self.fs) @@ ("name" :> self.name)

\* BitTornado's check_info, by its contract: non-empty name, positive piece
\* length, pieces a multiple of 20 bytes (always so for a sequence of
\* digests), file lengths >= 0, non-empty path components.
\* It raises ValueError exactly when this is FALSE.
check_info(info) ==
    /\ info["name"] # <<>>
    /\ info["piece length"] > 0
    /\ \A i \in 1..Len(info["files"]) :
          /\ info["files"][i].length >= 0
          /\ info["files"][i].path # <<>>
          /\ \A j \in 1..Len(info["files"][i].path) : info["files"][i].path[j] # <<>>

\* Info.write, line 169
MetaData(self, now) ==
    ("info" :> InfoDict(self)) @@ ("announce" :> self.tracker)
        @@ ("creation data" :> now)

\* Info.write, lines 171-173: the file that open(target, 'wb') ... close() leaves
FileWrite(self, now) == [target |-> self.target, data |-> MetaData(self, now)]

\* write() with the file opened before check_info is called: a rejected
\* dictionary leaves an empty file at the target
WriteFilesOpenFirst(self, now) ==
    IF check_info(InfoDict(self))
    THEN <<FileWrite(self, now)>>
    ELSE << [target |-> self.target, data |-> <<>>] >>

\* Info.write, lines 167-173: the files the call leaves. check_info raises
\* at line 167, before open at line 171.
WriteFiles(self, now) ==
    IF check_info(InfoDict(self)) THEN <<FileWrite(self, now)>> ELSE <<>>

---------------------------------------------------------------------------
(* str and os.path operations on names and paths *)

\* s.strip('/')
RECURSIVE LStrip(_)
LStrip(s) == IF s # <<>> /\ Head(s) = Slash THEN LStrip(Tail(s)) ELSE s
RECURSIVE RStrip(_)
RStrip(s) ==
    IF s # <<>> /\ s[Len(s)] = Slash THEN RStrip(SubSeq(s, 1, Len(s) - 1)) ELSE s
Strip(s) == RStrip(LStrip(s))

\* s.split('/'): never empty, '' gives ['']
RECURSIVE Split(_)
Split(s) ==
    IF \A i \in 1..Len(s) : s[i] # Slash THEN <<s>>
    ELSE LET k == CHOOSE i \in 1..Len(s) :
                      s[i] = Slash /\ \A j \in 1..(i - 1) : s[j] # Slash
         IN  <<SubSeq(s, 1, k - 1)>> \o Split(SubSeq(s, k + 1, Len(s)))

\* posixpath.join(a, b)
Join2(a, b) ==
    IF b # <<>> /\ Head(b) = Slash THEN b
    ELSE IF a = <<>> \/ a[Len(a)] = Slash THEN a \o b
    ELSE a \o <<Slash>> \o b

\* os.path.join(a, *p)
RECURSIVE JoinAll(_, _)
JoinAll(a, p) == IF p = <<>> THEN a ELSE JoinAll(Join2(a, Head(p)), Tail(p))

\* os.path.split(p)[0]
SplitHead(p) ==
    IF \A i \in 1..Len(p) : p[i] # Slash THEN <<>>
    ELSE LET k == CHOOSE i \in 1..Len(p) :
                      p[i] = Slash /\ \A j \in (i + 1)..Len(p) : p[j] # Slash
             head == SubSeq(p, 1, k)
         IN  IF \A i \in 1..Len(head) : head[i] = Slash THEN head ELSE RStrip(head)

\* byte-wise lexicographic order of str, the order sorted() uses
RECURSIVE LexLess(_, _)
LexLess(s, t) ==
    IF t = <<>> THEN FALSE
    ELSE IF s = <<>> THEN TRUE
    ELSE IF Head(s) # Head(t) THEN Head(s) < Head(t)
    ELSE LexLess(Tail(s), Tail(t))

\* sorted(names)
RECURSIVE Sorted(_)
Sorted(S) ==
    IF S = {} THEN <<>>
    ELSE LET m == CHOOSE x \in S : \A y \in S \ {x} : LexLess(x, y)
         IN  <<m>> \o Sorted(S \ {m})

---------------------------------------------------------------------------
(* The filesystem. An entry is a regular file with its bytes, a directory  *)
(* with its entries by name, or something else (a device, a socket); the   *)
(* working directory is the root directory, fsys.                          *)

Absent == [kind |-> "absent", data |-> <<>>, ents |-> <<>>]
File(d) == [kind |-> "file", data |-> d, ents |-> <<>>]
Dir(e) == [kind |-> "dir", data |-> <<>>, ents |-> e]
Special == [kind |-> "special", data |-> <<>>, ents |-> <<>>]

\* the path components the system resolves a path string to
Comps(p) == SelectSeq(Split(p), LAMBDA c : c # <<>> /\ c # <<Dot>>)

RECURSIVE Lookup(_, _)
Lookup(e, comps) ==
    IF comps = <<>> THEN e
    ELSE IF e.kind = "dir" /\ Head(comps) \in DOMAIN e.ents
         THEN Lookup(e.ents[Head(comps)], Tail(comps))
         ELSE Absent

\* os.path.isfile, os.path.isdir, os.listdir, os.path.getsize, os.path.abspath
IsFile(fs, loc) == Lookup(fs, Comps(loc)).kind = "file"
IsDir(fs, loc) == Lookup(fs, Comps(loc)).kind = "dir"
ListDir(fs, loc) ==
    LET e == Lookup(fs, Comps(loc))
    IN  {n \in DOMAIN e.ents : e.ents[n].kind # "absent"}
GetSize(fs, loc) == DLen(Lookup(fs, Comps(loc)).data)
AbsPath(loc) == <<Slash>> \o JoinAll(<<>>, Comps(loc))

---------------------------------------------------------------------------
(* class BTTree: __init__ *)

\* BTTree(loc, path): [ok |-> TRUE, tree |-> the object] or the exception.
\* An exception raised for an entry of a directory reaches "except problem:";
\* the name problem is bound nowhere, so evaluating the clause raises
\* NameError, which takes the place of the exception at every level above.
RECURSIVE BTTreeInit(_, _, _)
BTTreeInit(fs, loc, path) ==
    IF IsFile(fs, loc) THEN
        [ok |-> TRUE, err |-> NoError,
         tree |-> [loc |-> AbsPath(loc), path |-> path, subs |-> <<>>,
                   size |-> GetSize(fs, loc)]]
    ELSE IF IsDir(fs, loc) THEN
        LET names == SelectSeq(Sorted(ListDir(fs, AbsPath(loc))),
                               LAMBDA sub : sub[1] # Dot)
            built == [i \in 1..Len(names) |->
                         BTTreeInit(fs, Join2(loc, names[i]), path \o <<names[i]>>)]
        IN  IF \E i \in 1..Len(names) : ~built[i].ok
            THEN [ok |-> FALSE, err |-> [kind |-> "NameError", loc |-> <<>>],
                  tree |-> <<>>]
            ELSE LET subs == [i \in 1..Len(names) |-> built[i].tree]
                 IN  [ok |-> TRUE, err |-> NoError,
                      tree |-> [loc |-> AbsPath(loc), path |-> path, subs |-> subs,
                                size |-> SumSeq([i \in 1..Len(subs) |-> subs[i].size])]]
    ELSE [ok |-> FALSE, err |-> [kind |-> "Exception", loc |-> loc], tree |-> <<>>]

---------------------------------------------------------------------------
(* main, lines 314-336, and BTTree.buildMetaTree                           *)
(*                                                                         *)
(* A frame of buildMetaTree holds self (node), the position in the method  *)
(* (pc) and the locals: info as the index of the Info object in infos, the *)
(* index i of the for loop over self.subs, the index k of the for loop     *)
(* over infos, pos, and piece_length, which no statement binds before      *)
(* line 244 reads it.                                                      *)

Unbound == [bound |-> FALSE, val |-> 0]
Bound(v) == [bound |-> TRUE, val |-> v]

NewFrame(node) ==
    [node |-> node, pc |-> "enter", info |-> 0, i |-> 1, k |-> 1, pos |-> 0,
     piece_length |-> Unbound]

Top == stack[Len(stack)]
SetTop(f) == [stack EXCEPT ![Len(stack)] = f]

\* an exception that makes every active frame write its scope on the way
\* out, as a "finally: info.write()" around the body of buildMetaTree would
RaiseFlushing(kind, loc) ==
    /\ error' = [kind |-> kind, loc |-> loc]
    /\ stack' = <<>>
    /\ mainpc' = "raised"
    /\ written' = written \o
          [f \in 1..Len(SelectSeq(stack, LAMBDA fr : fr.info > 0)) |->
              FileWrite(Flush(infos[SelectSeq(stack, LAMBDA fr : fr.info > 0)[f].info]), 0)]
    /\ madedirs' = madedirs

\* An exception leaves every active frame: no frame of buildMetaTree and
\* nothing in main has a try statement, so no handler and no cleanup runs.
Raise(kind, loc) ==
    /\ error' = [kind |-> kind, loc |-> loc]
    /\ stack' = <<>>
    /\ mainpc' = "raised"
    /\ written' = written
    /\ madedirs' = madedirs

\* main, lines 319-333: the path main gives the tree of source argument file
MainPath(file) ==
    LET arg     == Strip(file)
        parts   == Split(arg)
        dirname == SubSeq(parts, Len(parts), Len(parts))
        path0   == SubSeq(parts, 1, Len(parts) - 1)
        l       == Len(opts.ignore)
        path    == IF opts.u
                   THEN IF l <= Len(path0) /\ SubSeq(path0, 1, l) = opts.ignore
                        THEN SubSeq(path0, l + 1, Len(path0))
                        ELSE path0
                   ELSE <<>>
    IN  opts.prefix \o path \o dirname

\* main, lines 316-334: the next source argument, up to the call of
\* buildMetaTree(tracker, target), which binds infos to the default list
MainCall ==
    /\ mainpc = "loop"
    /\ argi < Len(args)
    /\ argi' = argi + 1
    /\ LET file == args[argi + 1]
           t    == BTTreeInit(fsys, file, MainPath(file))
       IN  IF t.ok
           THEN /\ stack' = <<NewFrame(t.tree)>>
                /\ mainpc' = "call"
                /\ UNCHANGED <<error, written, madedirs>>
           ELSE Raise(t.err.kind, t.err.loc)
    /\ UNCHANGED <<encoding, fsys, opts, args, infos, handles, clientVars>>

\* main, line 336
MainReturn ==
    /\ mainpc = "loop"
    /\ argi = Len(args)
    /\ mainpc' = "returned"
    /\ UNCHANGED <<encoding, fsys, opts, args, argi, stack, infos, handles,
                   written, madedirs, error, clientVars>>

\* buildMetaTree, lines 231-237: the scope of this node, appended to infos
Enter ==
    /\ mainpc = "call"
    /\ Top.pc = "enter"
    /\ LET self   == Top.node
           source == self.path[1]
       IN  IF uniconvert_ok(source, encoding)
           THEN LET info == InfoInit(source,
                                     JoinAll(opts.target, self.path) \o TorrentExt,
                                     Tracker, self.size, encoding)
                IN  /\ infos' = Append(infos, info)
                    /\ stack' = SetTop([Top EXCEPT
                                   !.info = Len(infos) + 1,
                                   !.pc = IF self.subs = <<>> THEN "open" ELSE "recurse"])
                    /\ UNCHANGED <<error, mainpc, written, madedirs>>
           ELSE /\ Raise("UnicodeError", source)
                /\ infos' = infos
    /\ UNCHANGED <<encoding, fsys, opts, args, argi, handles, clientVars>>

\* buildMetaTree, lines 240-242: self.subs == [] holds for a file and for a
\* directory without visible entries; open() of a directory raises IOError
OpenLeaf ==
    /\ mainpc = "call"
    /\ Top.pc = "open"
    /\ IF IsFile(fsys, Top.node.loc)
       THEN /\ handles' = Append(handles, Top.node.loc)
            /\ stack' = SetTop([Top EXCEPT !.pc = "for_infos", !.pos = 0, !.k = 1])
            /\ UNCHANGED <<error, mainpc, written, madedirs>>
       ELSE /\ Raise("IOError", Top.node.loc)
            /\ handles' = handles
    /\ UNCHANGED <<encoding, fsys, opts, args, argi, infos, clientVars>>

\* buildMetaTree, lines 243-245: one iteration of "for i in infos". Line 244
\* reads piece_length; while it is unbound that raises UnboundLocalError.
ForInfos ==
    /\ mainpc = "call"
    /\ Top.pc = "for_infos"
    /\ Top.k <= Len(infos)
    /\ IF ~Top.piece_length.bound
       THEN /\ Raise("UnboundLocalError", Top.node.loc)
            /\ infos' = infos
       ELSE LET self == Top.node
                pl   == Max(Top.piece_length.val, infos[Top.k].piece_length)
            IN  IF uniconvertl_ok(self.path, encoding)
                THEN /\ infos' = [infos EXCEPT ![Top.k] =
                                     add_file_info(@, self.size, self.path, encoding)]
                     /\ stack' = SetTop([Top EXCEPT !.piece_length = Bound(pl),
                                                    !.k = @ + 1])
                     /\ UNCHANGED <<error, mainpc, written, madedirs>>
                ELSE /\ Raise("TypeError", self.loc)
                     /\ infos' = infos
    /\ UNCHANGED <<encoding, fsys, opts, args, argi, handles, clientVars>>

\* line 258 with self.buildMetaTree for sub.buildMetaTree: the method
\* calls itself on the node it is visiting
DescendSelf ==
    /\ mainpc = "call"
    /\ Top.pc = "recurse"
    /\ Top.i <= Len(Top.node.subs)
    /\ stack' = Append(stack, NewFrame(Top.node))
    /\ UNCHANGED <<encoding, fsys, opts, args, argi, infos, handles, written,
                   madedirs, error, mainpc, clientVars>>

\* buildMetaTree, lines 257-258: the call for the next element of self.subs,
\* with the same list infos
Descend ==
    /\ mainpc = "call"
    /\ Top.pc = "recurse"
    /\ Top.i <= Len(Top.node.subs)
    /\ stack' = Append(stack, NewFrame(Top.node.subs[Top.i]))
    /\ UNCHANGED <<encoding, fsys, opts, args, argi, infos, handles, written,
                   madedirs, error, mainpc, clientVars>>

---------------------------------------------------------------------------
(* The statements of buildMetaTree and main that follow line 244. Every    *)
(* node without subs raises at line 241 or at line 244, and a node with    *)
(* subs raises in its first sub, so no run reaches them: they are the      *)
(* translation of the code, and are no part of Next.                       *)

\* os.path.exists(d) for a directory d
Exists(d) ==
    \/ d # <<>> /\ Lookup(fsys, Comps(d)).kind # "absent"
    \/ \E j \in 1..Len(madedirs) : Comps(madedirs[j]) = Comps(d)

\* buildMetaTree, lines 247-251: one iteration of the read loop
ReadChunk ==
    /\ mainpc = "call"
    /\ Top.pc = "for_infos"
    /\ Top.k > Len(infos)
    /\ Top.pos < Top.node.size
    /\ LET a   == Min(Top.piece_length.val, Top.node.size - Top.pos)
           buf == DSlice(Lookup(fsys, Comps(Top.node.loc)).data, Top.pos, Top.pos + a)
       IN  /\ stack' = SetTop([Top EXCEPT !.pos = @ + a])
           /\ infos' = [j \in 1..Len(infos) |-> add_data(infos[j], buf)]
    /\ UNCHANGED <<encoding, fsys, opts, args, argi, handles, written, madedirs,
                   error, mainpc, clientVars>>

\* buildMetaTree, line 253
CloseLeaf ==
    /\ mainpc = "call"
    /\ Top.pc = "for_infos"
    /\ Top.k > Len(infos)
    /\ Top.pos >= Top.node.size
    /\ handles' = SubSeq(handles, 1, Len(handles) - 1)
    /\ stack' = SetTop([Top EXCEPT !.pc = "leave"])
    /\ UNCHANGED <<encoding, fsys, opts, args, argi, infos, written, madedirs,
                   error, mainpc, clientVars>>

\* buildMetaTree, line 257: the for loop over self.subs is exhausted
EndSubs ==
    /\ mainpc = "call"
    /\ Top.pc = "recurse"
    /\ Top.i > Len(Top.node.subs)
    /\ stack' = SetTop([Top EXCEPT !.pc = "leave"])
    /\ UNCHANGED <<encoding, fsys, opts, args, argi, infos, handles, written,
                   madedirs, error, mainpc, clientVars>>

\* buildMetaTree, lines 260-265, and the return to the caller
Leave ==
    /\ mainpc = "call"
    /\ Top.pc = "leave"
    /\ LET info       == infos[Top.info]
           target_dir == SplitHead(info.target)
           self       == Flush(info)
           rest       == SubSeq(stack, 1, Len(stack) - 1)
       IN  IF ~Exists(target_dir) /\ target_dir = <<>>
           THEN \* os.makedirs('') raises OSError
                /\ Raise("OSError", target_dir)
                /\ infos' = infos
           ELSE /\ madedirs' = IF Exists(target_dir) THEN madedirs
                               ELSE Append(madedirs, target_dir)
                /\ infos' = [infos EXCEPT ![Top.info] = self]
                /\ IF check_info(InfoDict(self))
                   THEN /\ \E now \in 0..MaxTime :
                              written' = written \o WriteFiles(self, now)
                        /\ error' = error
                        /\ IF rest = <<>>
                           THEN stack' = rest /\ mainpc' = "loop"
                           ELSE /\ stack' = [rest EXCEPT ![Len(rest)].i = @ + 1]
                                /\ mainpc' = mainpc
                   ELSE /\ error' = [kind |-> "ValueError", loc |-> info.target]
                        /\ stack' = <<>>
                        /\ mainpc' = "raised"
                        /\ written' = written \o WriteFiles(self, 0)
    /\ UNCHANGED <<encoding, fsys, opts, args, argi, handles, clientVars>>

---------------------------------------------------------------------------
(* The runs of main *)

\* file contents: '', 'abc', 'hello', and 2^15 + 1 bytes
DataEmpty == <<>>
DataAbc == << <<97, 1>>, <<98, 1>>, <<99, 1>> >>
DataHello == << <<104, 1>>, <<101, 1>>, <<108, 2>>, <<111, 1>> >>
DataBig == << <<0, 2 ^ 15>>, <<1, 1>> >>

\* names: t, a, b, f, x, y, .h, and a name that is not ASCII
NameT == <<116>>
NameA == <<97>>
NameB == <<98>>
NameF == <<102>>
NameX == <<120>>
NameY == <<121>>
NameHidden == <<Dot, 104>>
NameHigh == <<233>>
NameP == <<112>>
NameO == <<111>>

\* the directories t/a of the model: .h, b, x, y and the non-ASCII name
\* are each absent or one of a few entries
SourceDirs ==
    { Dir((NameHidden :> h) @@ (NameB :> b) @@ (NameX :> x) @@ (NameY :> y)
              @@ (NameHigh :> e)) :
        h \in {Absent, File(DataAbc)},
        b \in {Absent, File(DataBig), Special, Dir(<<>>),
               Dir(NameHidden :> File(DataAbc)),
               Dir(NameF :> File(DataHello))},
        x \in {Absent, File(DataAbc), File(DataEmpty)},
        y \in {Absent, File(DataHello)},
        e \in {Absent, File(DataEmpty)} }

\* t/a is a file, something else, or a directory
Sources == {File(DataEmpty), File(DataBig), Special} \cup SourceDirs

FileSystems == { Dir(NameT :> Dir(NameA :> src)) : src \in Sources }

\* the source arguments: none, t/a, /t/a/, t/a/x, and two arguments
ArgTA == NameT \o <<Slash>> \o NameA
ArgLists ==
    { <<>>, <<ArgTA>>, << <<Slash>> \o ArgTA \o <<Slash>> >>,
      <<ArgTA \o <<Slash>> \o NameX>>, <<ArgTA \o <<Slash>> \o NameX, ArgTA>> }

\* the options after lines 290-312: --ignore-prefix sets u
OptSets ==
    { [u |-> u, prefix |-> p, ignore |-> i, target |-> t] :
        u \in BOOLEAN, p \in {<<>>, <<NameP>>}, i \in {<<>>, <<NameT>>},
        t \in {<<>>, <<Dot, Slash>> \o NameO, <<Slash>> \o NameO} }
    \ { o \in [u : {FALSE}, prefix : {<<>>, <<NameP>>}, ignore : {<<NameT>>},
               target : {<<>>, <<Dot, Slash>> \o NameO, <<Slash>> \o NameO}] : TRUE }

Init ==
    /\ encoding \in Encodings
    /\ fsys \in FileSystems
    /\ opts \in OptSets
    /\ args \in ArgLists
    /\ argi = 0
    /\ stack = <<>>
    /\ infos = <<>>
    /\ handles = <<>>
    /\ written = <<>>
    /\ madedirs = <<>>
    /\ error = NoError
    /\ mainpc = "loop"
    /\ stream = <<>>
    /\ fed = [i \in {1, 2} |-> 0]
    /\ calls = [i \in {1, 2} |-> 0]
    /\ closed = [i \in {1, 2} |-> FALSE]
    /\ probe = NoProbe

Next ==
    \/ MainCall
    \/ MainReturn
    \/ Enter
    \/ OpenLeaf
    \/ ForInfos
    \/ Descend

Spec == Init /\ [][Next]_vars

---------------------------------------------------------------------------
(* A client of class Info: it creates scopes, passes a byte string to      *)
(* add_data in chunks of its choice and calls write().                     *)

NoOpts == [u |-> FALSE, prefix |-> <<>>, ignore |-> <<>>, target |-> <<>>]
NoFiles == [kind |-> "dir", data |-> <<>>, ents |-> <<>>]

\* the smallest piece length
P15 == 2 ^ 15

ClientScopes == {1, 2}
\* byte strings of up to two runs whose lengths lie around the piece boundary
RunLens == {1, P15 - 1, P15, P15 + 1}
ClientStreams ==
    {<<>>} \cup { << <<0, n>> >> : n \in RunLens }
           \cup { << <<0, n>>, <<1, m>> >> : n \in RunLens, m \in {1, P15} }
\* the declared sizes: they select piece lengths 2^15 and 2^16
ClientSizes == {0, 4 * 1024 * 1024 + 1}
\* what a client starts from: a byte string, the declared size and the
\* source name of the second scope. The name is 'a', or, for a few byte
\* strings, '', the name main gives the tree of the source argument '/'.
ClientInputs ==
    { [stream |-> s, size |-> z, source |-> <<97>>] :
          s \in ClientStreams, z \in ClientSizes }
    \cup { [stream |-> << <<0, n>> >>, size |-> 0, source |-> <<>>] :
              n \in {1, P15, P15 + 1} }
\* the lengths a client cuts chunks to (0: an empty chunk; the whole rest)
ChunkLens(rest) == {0, 1, P15 - 1, P15, rest}

ClientInit ==
    /\ encoding = "utf-8"
    /\ \E in \in ClientInputs :
          /\ stream = in.stream
          /\ infos = << InfoInit(<<97>>, <<49>> \o TorrentExt, Tracker,
                                 in.size, encoding),
                        InfoInit(in.source, <<50>> \o TorrentExt, Tracker,
                                 in.size, encoding) >>
    /\ fed = [i \in ClientScopes |-> 0]
    /\ calls = [i \in ClientScopes |-> 0]
    /\ closed = [i \in ClientScopes |-> FALSE]
    /\ written = <<>>
    /\ fsys = NoFiles /\ opts = NoOpts /\ args = <<>> /\ argi = 0
    /\ stack = <<>> /\ handles = <<>> /\ madedirs = <<>> /\ error = NoError
    /\ mainpc = "returned"
    /\ probe = NoProbe

\* scope.add_data(chunk), chunk the next n bytes of the stream
ClientAddData(i) ==
    /\ error = NoError
    /\ ~closed[i]
    /\ calls[i] < MaxCalls
    /\ \E n \in ChunkLens(DLen(stream) - fed[i]) :
          LET chunk == DSlice(stream, fed[i], fed[i] + n)
          IN  /\ infos' = [infos EXCEPT ![i] = add_data(@, chunk)]
              /\ fed' = [fed EXCEPT ![i] = @ + DLen(chunk)]
    /\ calls' = [calls EXCEPT ![i] = @ + 1]
    /\ UNCHANGED <<encoding, stream, closed, written, probe, driverVars>>

\* scope.write()
ClientWrite(i) ==
    /\ error = NoError
    /\ ~closed[i]
    /\ LET self == Flush(infos[i])
       IN  /\ infos' = [infos EXCEPT ![i] = self]
           /\ \E now \in 0..MaxTime :
                 written' = written \o WriteFiles(self, now)
           /\ error' = IF check_info(InfoDict(self)) THEN error
                       ELSE [kind |-> "ValueError", loc |-> self.target]
    /\ closed' = [closed EXCEPT ![i] = TRUE]
    /\ UNCHANGED <<encoding, stream, fed, calls, probe, fsys, opts, args, argi,
                   stack, handles, madedirs, mainpc>>

ClientNext ==
    \/ \E i \in ClientScopes : ClientAddData(i)
    \/ \E i \in ClientScopes : ClientWrite(i)

SpecInfo == ClientInit /\ [][ClientNext]_vars

---------------------------------------------------------------------------
(* get_piece_len applied to pairs of sizes. A size is [kib, rem], standing *)
(* for kib * 1024 + rem bytes.                                             *)

\* the thresholds of get_piece_len, in KiB
ThresholdsKiB == {4 * 1024, 16 * 1024, 64 * 1024, 512 * 1024,
                  2 * 1024 * 1024, 8 * 1024 * 1024}
\* 0, 1, the sizes just below, at and just above every threshold, and the
\* largest size the representation holds
ProbeSizes ==
    {[kib |-> 0, rem |-> 0], [kib |-> 0, rem |-> 1],
     [kib |-> 2147483647, rem |-> 1023]}
    \cup { [kib |-> t - 1, rem |-> 1023] : t \in ThresholdsKiB }
    \cup { [kib |-> t, rem |-> 0] : t \in ThresholdsKiB }
    \cup { [kib |-> t, rem |-> 1] : t \in ThresholdsKiB }

ProbeInit ==
    /\ \E s1 \in ProbeSizes, s2 \in ProbeSizes :
          probe = [sizes |-> <<s1, s2>>, lens |-> <<0, 0>>]
    /\ encoding = "utf-8"
    /\ stream = <<>> /\ infos = <<>> /\ written = <<>>
    /\ fed = [i \in ClientScopes |-> 0]
    /\ calls = [i \in ClientScopes |-> 0]
    /\ closed = [i \in ClientScopes |-> FALSE]
    /\ fsys = NoFiles /\ opts = NoOpts /\ args = <<>> /\ argi = 0
    /\ stack = <<>> /\ handles = <<>> /\ madedirs = <<>> /\ error = NoError
    /\ mainpc = "returned"

\* self.piece_length = self.get_piece_len(size), for the i-th size
Measure(i) ==
    /\ probe.lens[i] = 0
    /\ probe' = [probe EXCEPT
                    !.lens[i] = get_piece_len_wide(probe.sizes[i].kib,
                                                   probe.sizes[i].rem)]
    /\ UNCHANGED <<encoding, infos, written, stream, fed, calls, closed,
                   driverVars>>

ProbeNext == \E i \in {1, 2} : Measure(i)

SpecPolicy == ProbeInit /\ [][ProbeNext]_vars

---------------------------------------------------------------------------
(* Properties of a single scope, checked under SpecInfo *)

\* [SHA1(B[0:L]), SHA1(B[L:2L]), ...], with a last short block exactly when
\* L does not divide |B|
Blocks(B, L) ==
    LET n    == DLen(B)
        full == n \div L
        cnt  == IF n % L # 0 THEN full + 1 ELSE full
    IN  [j \in 1..cnt |-> ShaDigest(DSlice(B, (j - 1) * L, Min(j * L, n)))]

\* the bytes the client has passed to scope i
Fed(i) == DTake(stream, fed[i])

\* C2: concatenation law. Once write() has been called on a scope that was
\* fed the byte string B, the scope's pieces and, unless the validator
\* rejected the dictionary, the pieces of the file it wrote are the digests
\* of B[0:L], B[L:2L], ..., with one more digest for the short rest exactly
\* when |B| mod L # 0: none for |B| = 0, exactly k for |B| = k*L.
C2_ConcatenationLaw ==
    \A i \in ClientScopes :
        closed[i] =>
            LET B == Fed(i)
                L == infos[i].piece_length
            IN  /\ infos[i].pieces = Blocks(B, L)
                /\ Len(infos[i].pieces) =
                      (DLen(B) \div L) + (IF DLen(B) % L # 0 THEN 1 ELSE 0)
                /\ check_info(InfoDict(infos[i])) =>
                      \E k \in 1..Len(written) :
                          /\ written[k].target = infos[i].target
                          /\ written[k].data["info"]["pieces"] = Blocks(B, L)
                          /\ written[k].data["info"]["piece length"] = L

\* a scope written after exactly two full pieces, fed in several calls
C2_Witness ==
    \E i \in ClientScopes :
        /\ closed[i]
        /\ fed[i] = 2 * infos[i].piece_length
        /\ calls[i] >= 2
        /\ Len(infos[i].pieces) = 2

\* C3: chunk-independence. Two scopes of the same piece length that were
\* passed the same bytes, cut into chunks in any two ways, hold the same
\* pieces and the same done.
C3_ChunkIndependence ==
    \A i \in ClientScopes, j \in ClientScopes :
        (/\ infos[i].piece_length = infos[j].piece_length
         /\ fed[i] = fed[j]
         /\ closed[i] = closed[j])
        => /\ infos[i].pieces = infos[j].pieces
           /\ infos[i].done = infos[j].done

\* the same bytes, more than a piece, passed as one chunk to scope 1 and as
\* three chunks to scope 2, the rest of a piece still pending in both
C3_Witness ==
    /\ fed[1] = fed[2]
    /\ fed[1] > infos[1].piece_length
    /\ calls[1] = 1 /\ calls[2] = 3
    /\ ~closed[1] /\ ~closed[2]
    /\ infos[1].done > 0
    /\ Len(infos[1].pieces) >= 1

---------------------------------------------------------------------------
(* What a run of main is to produce, stated from the filesystem *)

Ended == mainpc \in {"returned", "raised"}

\* the tree main builds for source argument k
TreeOf(k) == BTTreeInit(fsys, args[k], MainPath(args[k]))

\* a node and all nodes below it, in the order of the traversal
RECURSIVE NodesOf(_)
NodesOf(node) ==
    <<node>> \o Flatten([i \in 1..Len(node.subs) |-> NodesOf(node.subs[i])])

\* the regular files at and below a node, in the order of the traversal
FilesUnder(node) ==
    SelectSeq(NodesOf(node), LAMBDA n : IsFile(fsys, n.loc))

\* the bytes of all regular files at and below a node, concatenated
RECURSIVE CatData(_)
CatData(nodes) ==
    IF nodes = <<>> THEN <<>>
    ELSE DCat(Lookup(fsys, Comps(Head(nodes).loc)).data, CatData(Tail(nodes)))
DataUnder(node) == CatData(FilesUnder(node))

\* source argument k is a tree of regular files and directories whose names
\* decode in the platform's encoding: a source the run has no reason to fail on
WellFormed(k) ==
    LET t == TreeOf(k)
    IN  /\ t.ok
        /\ LET nodes == NodesOf(t.tree)
           IN  \A i \in 1..Len(nodes) : uniconvertl_ok(nodes[i].path, encoding)

\* no directory of the sources is without visible entries
NoEmptyDirs ==
    \A k \in 1..Len(args) :
        LET t == TreeOf(k)
        IN  t.ok =>
              LET nodes == NodesOf(t.tree)
              IN  \A i \in 1..Len(nodes) :
                      nodes[i].subs = <<>> => IsFile(fsys, nodes[i].loc)

\* the run has one source argument, a directory
OneSourceDir == Len(args) = 1 /\ IsDir(fsys, args[1])

\* the nodes of all source arguments
AllNodes ==
    Flatten([k \in 1..Len(args) |->
                IF TreeOf(k).ok THEN NodesOf(TreeOf(k).tree) ELSE <<>>])
AllWellFormed == \A k \in 1..Len(args) : WellFormed(k)

\* target/c1/.../ck.torrent
TargetOf(node) == JoinAll(opts.target, node.path) \o TorrentExt

\* the files written at the target of a node
ArtifactsOf(node) ==
    SelectSeq(written, LAMBDA w : w.target = TargetOf(node))

\* path p without the components of the scope root r above and at it; a
\* leaf's own scope records the bare name
RelPath(r, p) ==
    IF r = p THEN SubSeq(p, Len(p), Len(p)) ELSE SubSeq(p, Len(r) + 1, Len(p))

---------------------------------------------------------------------------
(* Properties of buildMetaTree and main, checked under Spec *)

\* C1: when a run over well-formed sources (here: without empty
\* directories) has ended, the artifact of every
\* node d holds as pieces the block-wise digests, at d's own piece length,
\* of the concatenated bytes of the files under d in traversal order.
C1_PiecesOfSubtree ==
    (Ended /\ AllWellFormed /\ NoEmptyDirs) =>
        \A i \in 1..Len(AllNodes) :
            LET d == AllNodes[i]
            IN  \E j \in 1..Len(written) :
                    /\ written[j].target = TargetOf(d)
                    /\ written[j].data["info"]["pieces"] =
                          Blocks(DataUnder(d), get_piece_len(d.size))

\* C4: subtree containment. When a run over a well-formed source directory
\* (here: one without empty directories below it) has ended,
\* the artifact of every directory d has file lengths that sum to d.size and
\* ceil(d.size / piece_length(d.size)) digests, none when d.size = 0.
C4_SubtreeContainment ==
    (Ended /\ OneSourceDir /\ AllWellFormed /\ NoEmptyDirs) =>
        \A i \in 1..Len(AllNodes) :
            LET d == AllNodes[i]
                L == get_piece_len(d.size)
            IN  IsDir(fsys, d.loc) =>
                  \E j \in 1..Len(written) :
                    LET info == written[j].data["info"]
                    IN  /\ written[j].target = TargetOf(d)
                        /\ SumSeq([f \in 1..Len(info["files"]) |->
                                      info["files"][f].length]) = d.size
                        /\ Len(info["pieces"]) =
                              IF d.size > 0 THEN (d.size + L - 1) \div L ELSE 0

\* C5: when a run over a well-formed source directory (here: one without
\* empty directories below it) has ended, the artifact of every
\* node d lists every file under d once, with the file's path relative to
\* d's own root and not its full path.
C5_RelativePaths ==
    (Ended /\ OneSourceDir /\ AllWellFormed /\ NoEmptyDirs) =>
        \A i \in 1..Len(AllNodes) :
            LET d     == AllNodes[i]
                files == FilesUnder(d)
            IN  \E j \in 1..Len(written) :
                    /\ written[j].target = TargetOf(d)
                    /\ written[j].data["info"]["files"] =
                          [f \in 1..Len(files) |->
                              [length |-> files[f].size,
                               path |-> uniconvertl(RelPath(d.path, files[f].path),
                                                    encoding)]]

\* C6: buildMetaTree completes on a tree of files and directories (here:
\* one without empty directories), and has
\* then written exactly one artifact for every node, the one of the node
\* with path [c1,...,ck] at target/c1/.../ck.torrent, k = 1 included, with
\* the directories above it in existence.
C6_OneArtifactPerNode ==
    (Ended /\ AllWellFormed /\ NoEmptyDirs) =>
        /\ mainpc = "returned"
        /\ \A i \in 1..Len(AllNodes) :
              /\ Len(ArtifactsOf(AllNodes[i])) = 1
              /\ Comps(TargetOf(AllNodes[i])) =
                    Comps(opts.target)
                        \o SubSeq(AllNodes[i].path, 1, Len(AllNodes[i].path) - 1)
                        \o <<AllNodes[i].path[Len(AllNodes[i].path)] \o TorrentExt>>
              /\ LET target_dir == SplitHead(TargetOf(AllNodes[i]))
                 IN  target_dir = <<>> \/ Exists(target_dir)

\* C7: a directory without visible entries is processed as a branch: no
\* frame opens or reads it as a file, and when the run has ended its
\* artifact has been written with piece length 32768, no digest and no file.
C7_EmptyDirIsBranch ==
    /\ \A f \in 1..Len(stack) :
          IsDir(fsys, stack[f].node.loc) => stack[f].pc \notin {"open", "for_infos"}
    /\ (Ended /\ AllWellFormed) =>
          \A i \in 1..Len(AllNodes) :
              LET d == AllNodes[i]
              IN  (IsDir(fsys, d.loc) /\ d.subs = <<>>) =>
                    \E j \in 1..Len(written) :
                        /\ written[j].target = TargetOf(d)
                        /\ written[j].data["info"]["piece length"] = 32768
                        /\ written[j].data["info"]["pieces"] = <<>>
                        /\ written[j].data["info"]["files"] = <<>>

\* the visible regular files at and below an entry of the filesystem, each
\* directory's entries taken in byte-wise order of their names: the
\* canonical traversal, computed without the tree
RECURSIVE CanonFiles(_, _)
CanonFiles(e, path) ==
    IF e.kind = "file" THEN <<path>>
    ELSE IF e.kind = "dir" THEN
        LET names == Sorted({n \in DOMAIN e.ents :
                                e.ents[n].kind # "absent" /\ n[1] # Dot})
        IN  Flatten([i \in 1..Len(names) |->
                        CanonFiles(e.ents[names[i]], path \o <<names[i]>>)])
    ELSE <<>>

\* C8: file enumeration order. When a run over a well-formed source
\* directory (here: one without empty directories below it) has ended, the
\* files of every node's artifact are the visible regular files
\* below the node in the canonical traversal, in that order.
C8_FileOrder ==
    (Ended /\ OneSourceDir /\ AllWellFormed /\ NoEmptyDirs) =>
        \A i \in 1..Len(AllNodes) :
            LET d     == AllNodes[i]
                canon == CanonFiles(Lookup(fsys, Comps(d.loc)), d.path)
            IN  \E j \in 1..Len(written) :
                    LET files == written[j].data["info"]["files"]
                    IN  /\ written[j].target = TargetOf(d)
                        /\ Len(files) = Len(canon)
                        /\ \A f \in 1..Len(files) :
                              files[f].path[Len(files[f].path)] =
                                  uniconvert(canon[f][Len(canon[f])], encoding)

\* C9: no partial commit. Only the finalization of a scope (lines 260-265)
\* writes a file; the step in which an exception ends the run leaves no
\* file at the target of the failing node or of any node above it; and
\* after the exception nothing is written.
C9_NoPartialCommit ==
    [][ /\ (written' # written) => (stack # <<>> /\ Top.pc = "leave")
        /\ (error = NoError /\ error' # NoError) =>
              \A f \in 1..Len(stack) : \A j \in 1..Len(written') :
                  written'[j].target # TargetOf(stack[f].node)
        /\ (error # NoError) => (written' = written) ]_vars

\* an exception raised at a leaf whose file is open, below at least one
\* directory whose scope is active: nothing has been written
C9_Witness ==
    /\ error.kind = "UnboundLocalError"
    /\ Len(infos) >= 2
    /\ handles # <<>>
    /\ mainpc = "raised"
    /\ written = <<>>

\* C10: a root that is a single regular file. For the first source
\* argument being a regular file, the scope created for it has the file's
\* name as its name, whatever path the options give it, and when the run
\* has ended exactly one artifact has been written, with that name and
\* with one entry in files.
C10_SingleFileRoot ==
    (args # <<>> /\ IsFile(fsys, args[1]) /\ WellFormed(1)) =>
        LET comps    == Comps(args[1])
            filename == uniconvert(comps[Len(comps)], encoding)
        IN  /\ infos # <<>> => infos[1].name = filename
            /\ Ended =>
                  /\ Len(written) = 1
                  /\ written[1].data["info"]["name"] = filename
                  /\ Len(written[1].data["info"]["files"]) = 1

---------------------------------------------------------------------------
(* The piece-length policy, checked under SpecPolicy *)

\* size s exceeds t KiB
Exceeds(s, t) == s.kib > t \/ (s.kib = t /\ s.rem > 0)
SizeLeq(s1, s2) == s1.kib < s2.kib \/ (s1.kib = s2.kib /\ s1.rem <= s2.rem)

\* C11: the piece length of a size is 2^(15 + n), n the number of the six
\* thresholds 4 MiB .. 8 GiB the size strictly exceeds (so between 2^15 and
\* 2^21, and a size equal to a threshold does not count it), and of two
\* sizes the larger never gets the smaller piece length.
C11_PieceLengthPolicy ==
    /\ \A i \in DOMAIN probe.lens :
          probe.lens[i] # 0 =>
              probe.lens[i] =
                  2 ^ (15 + Cardinality({ t \in ThresholdsKiB :
                                            Exceeds(probe.sizes[i], t) }))
    /\ \A i, j \in DOMAIN probe.lens :
          (probe.lens[i] # 0 /\ probe.lens[j] # 0
              /\ SizeLeq(probe.sizes[i], probe.sizes[j]))
          => probe.lens[i] <= probe.lens[j]

\* 2 GiB exactly and 2 GiB + 1 have been measured: 2^19 and 2^20
C11_Witness ==
    /\ probe.sizes = << [kib |-> 2 * 1024 * 1024, rem |-> 0],
                        [kib |-> 2 * 1024 * 1024, rem |-> 1] >>
    /\ probe.lens = << 2 ^ 19, 2 ^ 20 >>

---------------------------------------------------------------------------
(* Entries that are neither files nor directories *)

\* the locations at and below loc, hidden names left out, that are neither
\* a regular file nor a directory
RECURSIVE SpecialsUnder(_, _)
SpecialsUnder(fs, loc) ==
    IF IsFile(fs, loc) THEN {}
    ELSE IF IsDir(fs, loc) THEN
        LET names == SelectSeq(Sorted(ListDir(fs, AbsPath(loc))),
                               LAMBDA sub : sub[1] # Dot)
        IN  UNION { SpecialsUnder(fs, Join2(loc, names[i])) : i \in 1..Len(names) }
    ELSE {loc}

\* C12: once main has taken a source argument that holds, at any depth, an
\* entry that is neither a regular file nor a directory, the run has been
\* ended by an error that carries the location of such an entry, no tree is
\* traversed and nothing has been written.
C12_UnsupportedEntryReported ==
    (argi >= 1 /\ SpecialsUnder(fsys, args[1]) # {})
    => /\ mainpc = "raised"
       /\ error.loc \in SpecialsUnder(fsys, args[1])
       /\ stack = <<>>
       /\ written = <<>>

---------------------------------------------------------------------------
(* Validation before the artifact is written, checked under SpecInfo *)

\* C13: when write() has been called on a scope whose info dictionary the
\* validator rejects, the call has ended with the validator's error and no
\* file exists at the scope's target.
C13_RejectedWritesNothing ==
    \A i \in DOMAIN closed :
        (closed[i] /\ i \in DOMAIN infos /\ ~check_info(InfoDict(infos[i])))
        => /\ error = [kind |-> "ValueError", loc |-> infos[i].target]
           /\ \A j \in 1..Len(written) : written[j].target # infos[i].target

\* the first scope has written its artifact, then the second scope, with
\* data absorbed, was rejected
C13_Witness ==
    /\ Len(infos) = 2 /\ closed[1] /\ closed[2]
    /\ ~check_info(InfoDict(infos[2]))
    /\ infos[2].pieces # <<>>
    /\ Len(written) = 1 /\ written[1].target = infos[1].target

---------------------------------------------------------------------------
(* The counters of a scope, checked under SpecInfo *)

\* C14: in every scope that write() has not been called on, after any
\* number of add_data calls, 0 <= done < piece_length, the number of digests
\* in pieces is floor(bytes absorbed / piece_length) and done is
\* bytes absorbed mod piece_length.
C14_PieceBoundaries ==
    \A i \in DOMAIN infos :
        ~closed[i] =>
            LET L == infos[i].piece_length
            IN  /\ 0 <= infos[i].done /\ infos[i].done < L
                /\ Len(infos[i].pieces) = fed[i] \div L
                /\ infos[i].done = fed[i] % L

\* a scope that two calls have fed exactly one piece
C14_Witness ==
    \E i \in DOMAIN infos :
        /\ ~closed[i] /\ calls[i] = 2
        /\ fed[i] = infos[i].piece_length
        /\ infos[i].done = 0 /\ Len(infos[i].pieces) = 1

\* C15: in every scope that write() has not been called on, totalhashed is
\* pieces * piece_length + done, the number of bytes absorbed so far.
C15_TotalHashed ==
    \A i \in DOMAIN infos :
        ~closed[i] =>
            /\ infos[i].totalhashed =
                  Len(infos[i].pieces) * infos[i].piece_length + infos[i].done
            /\ infos[i].totalhashed = fed[i]

---------------------------------------------------------------------------
(* The traversal: active scopes, finalization, handles, chunk size.        *)
(* Checked under Spec.                                                     *)

\* C16: the scopes that a leaf visit calls are exactly the scopes of the
\* nodes on the path from the root to the leaf. Whenever the loop over
\* infos at a leaf takes a step, the list holds the scopes of the active
\* frames and no other, and the step registers the leaf with the next of
\* them and changes no other scope.
C16_ScopesOfThePath ==
    [][ (mainpc = "call" /\ stack # <<>> /\ Top.pc = "for_infos")
        => /\ DOMAIN infos = { stack[f].info : f \in 1..Len(stack) }
           /\ \A f \in 1..Len(stack) :
                 infos[stack[f].info].target = TargetOf(stack[f].node)
           /\ infos' = [infos EXCEPT ![Top.k] =
                            add_file_info(@, Top.node.size, Top.node.path,
                                          encoding)] ]_vars

\* a node and all nodes below it, every node after the nodes below it
RECURSIVE PostOrder(_)
PostOrder(node) ==
    Flatten([i \in 1..Len(node.subs) |-> PostOrder(node.subs[i])]) \o <<node>>

\* C17: each scope is finalized and written exactly once, when the
\* traversal leaves its node. When a run over well-formed sources (here:
\* without empty directories) has ended, the files written are, in order,
\* the artifacts of the nodes in the order the traversal leaves them: every
\* node after all nodes below it and before its later siblings.
C17_FinalizedOnLeaving ==
    (Ended /\ AllWellFormed /\ NoEmptyDirs) =>
        LET left == Flatten([k \in 1..Len(args) |-> PostOrder(TreeOf(k).tree)])
        IN  [j \in 1..Len(written) |-> written[j].target]
                = [j \in 1..Len(left) |-> TargetOf(left[j])]

\* C18: a file handle is open only while the visit of its leaf is in
\* progress, and at most one handle is open at any time.
C18_HandleReleased ==
    /\ Len(handles) <= 1
    /\ handles # <<>> =>
          /\ stack # <<>>
          /\ Top.node.subs = <<>>
          /\ Top.node.loc = handles[1]

\* C19: computing the chunk size at a leaf succeeds, for the first leaf
\* too, and gives the largest piece_length of the scopes looked at.
C19_ChunkSizeIsMax ==
    /\ error.kind # "UnboundLocalError"
    /\ \A f \in 1..Len(stack) :
          (stack[f].pc = "for_infos" /\ stack[f].k > 1) =>
              /\ stack[f].piece_length.bound
              /\ \A j \in 1..(stack[f].k - 1) :
                    stack[f].piece_length.val >= infos[j].piece_length
              /\ \E j \in 1..(stack[f].k - 1) :
                    stack[f].piece_length.val = infos[j].piece_length

---------------------------------------------------------------------------
(* Termination, checked under SpecFair: the runs of main without options   *)
(* on a UTF-8 platform, over every filesystem and argument list of Init.   *)
(* main is one sequential thread: while a statement remains to be          *)
(* executed, the interpreter executes it, so every action is weakly fair.  *)
(* MainCall changes argi whenever its guard holds, so it is enabled        *)
(* exactly when mainpc = "loop" /\ argi < Len(args); its fairness is       *)
(* written with that guard in the place of ENABLED <<MainCall>>_vars.      *)

InitFair == Init /\ encoding = "utf-8" /\ opts = NoOpts
SpecFair ==
    /\ InitFair /\ [][Next]_vars
    /\ WF_vars(MainReturn) /\ WF_vars(Enter) /\ WF_vars(OpenLeaf)
    /\ WF_vars(ForInfos) /\ WF_vars(Descend)
    /\ ([]<>~(mainpc = "loop" /\ argi < Len(args)) \/ []<><<MainCall>>_vars)

====
